---- MODULE Spec2Model ----
(***************************************************************************)
(* Model of update-record.py: one run of the script that reads the ngrok   *)
(* agent's tunnel list and writes the first tcp tunnel's host and port     *)
(* into a Cloudflare SRV record.                                           *)
(*                                                                         *)
(* Python values are represented as follows.                               *)
(*   - a str that the code takes apart (public_url, host, port, content)   *)
(*     is a sequence of one-character strings;                             *)
(*   - a str that the code only passes around (env values, names) is a     *)
(*     TLA+ string;                                                        *)
(*   - an optional value is a sequence of length 0 (None) or 1 (the value);*)
(*   - the value get_ngrok_url returns is [none, items]: none = TRUE for   *)
(*     a bare None, otherwise items is the returned tuple or list.         *)
(***************************************************************************)
EXTENDS Naturals, Sequences, FiniteSets

VARIABLES
    env,              \* the process environment after load_dotenv
    pc,               \* position of the entry sequence
    cfg,              \* the six values read with os.getenv
    get_response,     \* what requests.get produced (empty before the GET)
    lookup,           \* what get_ngrok_url returned (empty before the call)
    ngrok_host,       \* left side of the unpacking at line 110
    ngrok_port,
    requests,         \* the HTTP requests issued so far, in order
    put_response,     \* what requests.put produced (empty before the PUT)
    update_response,  \* what update_cloudflare_dns returned
    stdout,           \* the lines printed so far
    exit_status,      \* empty while running, then the process exit status
    traceback         \* the uncaught exception that ended the run, or ""

vars == <<env, pc, cfg, get_response, lookup, ngrok_host, ngrok_port, requests,
          put_response, update_response, stdout, exit_status, traceback>>

---------------------------------------------------------------------------
(* Bounds *)

MaxTunnels == 2

---------------------------------------------------------------------------
(* Python values *)

PyNone == <<>>

Some(v) == <<v>>

Line(m, a) == [msg |-> m, arg |-> a]

\* truth value of an optional str kept as a TLA+ string (os.getenv results)
TruthyEnv(v) == v # PyNone /\ v[1] # ""

\* truth value of an optional str kept as a character sequence
Truthy(v) == v # PyNone /\ Len(v[1]) > 0

\* str(v) as an f-string renders it
Format(v) == IF v = PyNone THEN <<"N", "o", "n", "e">> ELSE v[1]

\* s.replace(old, new): every non-overlapping occurrence, left to right
RECURSIVE Replace(_, _, _)
Replace(s, old, new) ==
    IF Len(s) < Len(old) THEN s
    ELSE IF SubSeq(s, 1, Len(old)) = old
         THEN new \o Replace(SubSeq(s, Len(old) + 1, Len(s)), old, new)
         ELSE <<Head(s)>> \o Replace(Tail(s), old, new)

\* s.split(sep) for a one-character separator: always at least one component
RECURSIVE Split(_, _)
Split(s, sep) ==
    IF \A i \in 1..Len(s) : s[i] # sep THEN <<s>>
    ELSE LET i == CHOOSE k \in 1..Len(s) :
                     s[k] = sep /\ \A j \in 1..(k - 1) : s[j] # sep
         IN <<SubSeq(s, 1, i - 1)>> \o Split(SubSeq(s, i + 1, Len(s)), sep)

Digits == <<"0", "1", "2", "3", "4", "5", "6", "7", "8", "9">>

IsDigit(c) == \E d \in 1..Len(Digits) : Digits[d] = c

DigitValue(c) == (CHOOSE d \in 1..Len(Digits) : Digits[d] = c) - 1

\* int(s) succeeds on a non-empty run of decimal digits (the sign, blank and
\* underscore forms int() also takes use characters outside the modelled ones)
IntParses(s) == Len(s) > 0 /\ \A i \in 1..Len(s) : IsDigit(s[i])

RECURSIVE IntValue(_)
IntValue(s) ==
    IF Len(s) = 0 THEN 0
    ELSE 10 * IntValue(SubSeq(s, 1, Len(s) - 1)) + DigitValue(s[Len(s)])

---------------------------------------------------------------------------
(* The tunnel API: the responses requests.get may produce *)

TcpScheme == <<"t", "c", "p", ":", "/", "/">>

\* public_url values: the documented shape and the ways of departing from it
PublicUrls ==
    { TcpScheme \o <<"1", ".", "2", ".", "3", ".", "4", ":", "5", "5", "5", "5">>,
      TcpScheme \o <<"a", ":", "8", "0">>,
      TcpScheme \o <<"a", ":", "x">>,
      TcpScheme \o <<"a">>,
      TcpScheme \o <<":", "8", "0">>,
      TcpScheme \o <<"a", ":">>,
      TcpScheme \o <<"a", ":", "8", "0", ":", "1">>,
      TcpScheme,
      <<>>,
      <<"a", ":", "8", "0">>,
      <<"a">> \o TcpScheme \o <<"b", ":", "8", "0">> }

HttpUrl == <<"h", "t", "t", "p", "s", ":", "/", "/", "a">>

\* one element of the "tunnels" list; an absent key is PyNone
TunnelEntries ==
    [proto : {Some("tcp")}, public_url : {Some(u) : u \in PublicUrls} \cup {PyNone}]
    \cup [proto : {Some("https")}, public_url : {Some(HttpUrl), PyNone}]
    \cup [proto : {PyNone}, public_url : {Some(HttpUrl)}]

TunnelLists == UNION {[1..n -> TunnelEntries] : n \in 0..MaxTunnels}

HttpResponse(st, json, has, ts) ==
    [neterr |-> FALSE, status |-> st, valid_json |-> json,
     has_tunnels |-> has, tunnels |-> ts]

SampleTunnels == <<[proto |-> Some("tcp"),
                    public_url |-> Some(TcpScheme \o <<"a", ":", "8", "0">>)]>>

\* a transport failure, a non-200 answer, a 200 answer whose body is not JSON,
\* a JSON body without "tunnels", or a JSON body with a tunnels list
GetResponses ==
    { [neterr |-> TRUE, status |-> 0, valid_json |-> FALSE,
       has_tunnels |-> FALSE, tunnels |-> <<>>] }
    \cup { HttpResponse(st, TRUE, TRUE, SampleTunnels) : st \in {404, 502} }
    \cup { HttpResponse(200, FALSE, FALSE, <<>>), HttpResponse(200, TRUE, FALSE, <<>>) }
    \cup { HttpResponse(200, TRUE, TRUE, ts) : ts \in TunnelLists }

---------------------------------------------------------------------------
(* get_ngrok_url *)

NonePair == [none |-> FALSE, items |-> <<PyNone, PyNone>>]

BareNone == [none |-> TRUE, items |-> <<>>]

StrList(parts) == [none |-> FALSE, items |-> [i \in 1..Len(parts) |-> Some(parts[i])]]

\* lines 23-25: the scan of the tunnels list; falling off the end of the loop
\* leaves the function without a return statement
RECURSIVE ScanTunnels(_)
ScanTunnels(tunnels) ==
    IF tunnels = <<>> THEN [exc |-> "", ret |-> BareNone]
    ELSE LET tunnel == Head(tunnels) IN
         IF tunnel.proto = PyNone THEN [exc |-> "KeyError", ret |-> BareNone]
         ELSE IF tunnel.proto = Some("tcp")
              THEN IF tunnel.public_url = PyNone
                   THEN [exc |-> "KeyError", ret |-> BareNone]
                   ELSE [exc |-> "",
                         ret |-> StrList(Split(Replace(tunnel.public_url[1],
                                                       TcpScheme, <<>>), ":"))]
              ELSE ScanTunnels(Tail(tunnels))

\* lines 18-25: the body of the try block; exc names the exception it raises
LookupBody(resp) ==
    IF resp.neterr THEN [exc |-> "RequestException", ret |-> BareNone, out |-> <<>>]
    ELSE IF resp.status # 200
         THEN [exc |-> "", ret |-> NonePair,
               out |-> <<Line("Error fetching ngrok URL: HTTP", resp.status)>>]
    ELSE IF ~resp.valid_json
         THEN [exc |-> "JSONDecodeError", ret |-> BareNone, out |-> <<>>]
    ELSE IF ~resp.has_tunnels
         THEN [exc |-> "KeyError", ret |-> BareNone, out |-> <<>>]
    ELSE LET r == ScanTunnels(resp.tunnels)
         IN [exc |-> r.exc, ret |-> r.ret, out |-> <<>>]

\* get_ngrok_url with the second except clause left out
get_ngrok_url_one_except(resp) ==
    LET b == LookupBody(resp) IN
    IF b.exc = "RequestException"
    THEN [raised |-> "", ret |-> NonePair,
          out |-> b.out \o <<Line("Network error occurred", b.exc)>>]
    ELSE [raised |-> b.exc, ret |-> b.ret, out |-> b.out]

\* lines 17-31: the try block with its two except clauses
get_ngrok_url(resp) ==
    LET b == LookupBody(resp) IN
    IF b.exc = "RequestException"
    THEN [raised |-> "", ret |-> NonePair,
          out |-> b.out \o <<Line("Network error occurred", b.exc)>>]
    ELSE IF b.exc # ""
         THEN [raised |-> "", ret |-> NonePair,
               out |-> b.out \o <<Line("Error", b.exc)>>]
         ELSE [raised |-> "", ret |-> b.ret, out |-> b.out]

---------------------------------------------------------------------------
(* The DNS provider: the responses requests.put may produce *)

OkBody == "{\"success\": true}"

ErrBody == "{\"success\": false}"

HtmlBody == "<html>Bad Gateway</html>"

\* a transport failure, or a status with a body that is JSON or is not
PutResponses ==
    { [neterr |-> TRUE, status |-> 0, text |-> ""] }
    \cup [neterr : {FALSE}, status : {200, 403}, text : {OkBody, ErrBody, HtmlBody}]

\* response.json(): the decoded body, or PyNone where decoding raises
ResponseJson(text) ==
    CASE text = OkBody -> Some([success |-> TRUE])
      [] text = ErrBody -> Some([success |-> FALSE])
      [] OTHER -> PyNone

\* The exception response.json() raises derives from RequestException in
\* requests >= 2.27 and is a plain ValueError before; the script pins no version.
RequestsVersions == {"json_error_is_request_exception", "json_error_is_value_error"}

---------------------------------------------------------------------------
(* update_cloudflare_dns *)

DefaultTtl == 60

\* the request body with the whole content as data.target
BuildDataUnsplitTarget(name, content, service, proto, ttl) ==
    LET parts == Split(content, ":") IN
    IF Len(parts) < 2 THEN [exc |-> "IndexError", data |-> PyNone]
    ELSE IF ~IntParses(parts[2]) THEN [exc |-> "ValueError", data |-> PyNone]
    ELSE [exc |-> "",
          data |-> Some([type |-> "SRV",
                         name |-> name,
                         content |-> content,
                         data |-> [service |-> service,
                                   proto |-> proto,
                                   name |-> name,
                                   priority |-> 0,
                                   weight |-> 0,
                                   port |-> IntValue(parts[2]),
                                   target |-> content],
                         ttl |-> ttl])]

\* lines 60-74: the request body; both subscripts and int() sit outside the try
BuildData(name, content, service, proto, ttl) ==
    LET parts == Split(content, ":") IN
    IF Len(parts) < 2 THEN [exc |-> "IndexError", data |-> PyNone]
    ELSE IF ~IntParses(parts[2]) THEN [exc |-> "ValueError", data |-> PyNone]
    ELSE [exc |-> "",
          data |-> Some([type |-> "SRV",
                         name |-> name,
                         content |-> content,
                         data |-> [service |-> service,
                                   proto |-> proto,
                                   name |-> name,
                                   priority |-> 0,
                                   weight |-> 0,
                                   port |-> IntValue(parts[2]),
                                   target |-> parts[1]],
                         ttl |-> ttl])]

\* lines 53-59 and 76: the request handed to requests.put
PutRequest(api_token, zone_id, record_id, data) ==
    [method |-> "PUT",
     url |-> <<"https://api.cloudflare.com/client/v4/zones/", zone_id,
               "/dns_records/", record_id>>,
     headers |-> [Authorization |-> <<"Bearer ", api_token>>,
                  ContentType |-> "application/json"],
     json |-> data]

\* the try block with "return None" at line 80 left out
UpdateBodyFallsThrough(resp) ==
    IF resp.neterr THEN [exc |-> "RequestException", ret |-> PyNone, out |-> <<>>]
    ELSE LET body == ResponseJson(resp.text) IN
         IF body = PyNone
         THEN [exc |-> "JSONDecodeError", ret |-> PyNone,
               out |-> IF resp.status # 200
                       THEN <<Line("Error updating Cloudflare DNS: HTTP", resp.status)>>
                       ELSE <<>>]
         ELSE [exc |-> "", ret |-> body,
               out |-> IF resp.status # 200
                       THEN <<Line("Error updating Cloudflare DNS: HTTP", resp.status),
                              Line("response.json()", body)>>
                       ELSE <<>>]

\* lines 76-81: the body of the try block, given the provider's response
UpdateBody(resp) ==
    IF resp.neterr THEN [exc |-> "RequestException", ret |-> PyNone, out |-> <<>>]
    ELSE LET body == ResponseJson(resp.text) IN
         IF resp.status # 200
         THEN LET first == <<Line("Error updating Cloudflare DNS: HTTP", resp.status)>> IN
              IF body = PyNone
              THEN [exc |-> "JSONDecodeError", ret |-> PyNone, out |-> first]
              ELSE [exc |-> "", ret |-> PyNone,
                    out |-> first \o <<Line("response.json()", body)>>]
         ELSE IF body = PyNone
              THEN [exc |-> "JSONDecodeError", ret |-> PyNone, out |-> <<>>]
              ELSE [exc |-> "", ret |-> body, out |-> <<>>]

\* lines 75-87: the try block with its two except clauses
UpdateTry(resp, version) ==
    LET b == UpdateBody(resp) IN
    IF b.exc = "RequestException"
       \/ (b.exc = "JSONDecodeError" /\ version = "json_error_is_request_exception")
    THEN [ret |-> PyNone, out |-> b.out \o <<Line("Network error occurred", b.exc)>>]
    ELSE IF b.exc # ""
         THEN [ret |-> PyNone, out |-> b.out \o <<Line("Unexpected error", b.exc)>>]
         ELSE [ret |-> b.ret, out |-> b.out]

\* lines 34-87; request is empty when the function raises before the PUT
update_cloudflare_dns(api_token, zone_id, record_id, name, content, service, proto, ttl, resp, version) ==
    LET d == BuildData(name, content, service, proto, ttl) IN
    IF d.exc # ""
    THEN [raised |-> d.exc, request |-> <<>>, ret |-> PyNone, out |-> <<>>]
    ELSE LET t == UpdateTry(resp, version)
         IN [raised |-> "",
             request |-> <<PutRequest(api_token, zone_id, record_id, d.data[1])>>,
             ret |-> t.ret, out |-> t.out]

---------------------------------------------------------------------------
(* The entry sequence, lines 90-124 *)

RequiredValues(name) == {PyNone, Some(""), Some(name)}

OptionalValues == {PyNone, Some("custom")}

Environments ==
    [CLOUDFLARE_API_TOKEN : RequiredValues("token"),
     CLOUDFLARE_ZONE_ID : RequiredValues("zone"),
     CLOUDFLARE_RECORD_ID : RequiredValues("record"),
     NGROK_API_ENDPOINT : RequiredValues("http://localhost:4040/api/tunnels"),
     CLOUDFLARE_RECORD_NAME : OptionalValues,
     CLOUDFLARE_SERVICE_NAME : OptionalValues]

\* os.getenv(name, default)
getenv(name, default) == IF env[name] = PyNone THEN default ELSE env[name]

\* the check at line 106 with "is not None" in place of truthiness
AllRequiredNotNone(c) ==
    /\ c.cf_api_token # PyNone
    /\ c.cf_zone_id # PyNone
    /\ c.cf_record_id # PyNone
    /\ c.ngrok_endpoint # PyNone

\* all([...]) at line 106
AllRequired(c) ==
    /\ TruthyEnv(c.cf_api_token)
    /\ TruthyEnv(c.cf_zone_id)
    /\ TruthyEnv(c.cf_record_id)
    /\ TruthyEnv(c.ngrok_endpoint)

NoConfig ==
    [cf_api_token |-> PyNone, cf_zone_id |-> PyNone, cf_record_id |-> PyNone,
     ngrok_endpoint |-> PyNone, cf_record_name |-> PyNone,
     cloudflare_service_name |-> PyNone]

Init ==
    /\ env \in Environments
    /\ pc = "configure"
    /\ cfg = NoConfig
    /\ get_response = PyNone
    /\ lookup = PyNone
    /\ ngrok_host = PyNone
    /\ ngrok_port = PyNone
    /\ requests = <<>>
    /\ put_response = PyNone
    /\ update_response = PyNone
    /\ stdout = <<>>
    /\ exit_status = PyNone
    /\ traceback = ""

\* lines 97-108
Configure ==
    /\ pc = "configure"
    /\ LET c == [cf_api_token |-> getenv("CLOUDFLARE_API_TOKEN", PyNone),
                 cf_zone_id |-> getenv("CLOUDFLARE_ZONE_ID", PyNone),
                 cf_record_id |-> getenv("CLOUDFLARE_RECORD_ID", PyNone),
                 ngrok_endpoint |-> getenv("NGROK_API_ENDPOINT", PyNone),
                 cf_record_name |->
                     getenv("CLOUDFLARE_RECORD_NAME", Some("default_record_name")),
                 cloudflare_service_name |->
                     getenv("CLOUDFLARE_SERVICE_NAME", Some("_minecraft"))]
       IN /\ cfg' = c
          /\ IF ~AllRequired(c)
             THEN /\ stdout' = Append(stdout,
                        Line("Missing one or more required environment variables.", ""))
                  /\ exit_status' = Some(1)
                  /\ pc' = "done"
             ELSE /\ pc' = "resolve"
                  /\ UNCHANGED <<stdout, exit_status>>
    /\ UNCHANGED <<env, get_response, lookup, ngrok_host, ngrok_port, requests,
                   put_response, update_response, traceback>>

\* line 110: the call and the unpacking of what it returned
Resolve ==
    /\ pc = "resolve"
    /\ \E resp \in GetResponses :
         LET r == get_ngrok_url(resp)
             unpack == IF r.raised # "" THEN r.raised
                       ELSE IF r.ret.none THEN "TypeError"
                       ELSE IF Len(r.ret.items) # 2 THEN "ValueError"
                       ELSE ""
         IN /\ requests' = Append(requests,
                                  [method |-> "GET", url |-> cfg.ngrok_endpoint[1]])
            /\ get_response' = Some(resp)
            /\ stdout' = stdout \o r.out
            /\ lookup' = IF r.raised # "" THEN PyNone ELSE Some(r.ret)
            /\ IF unpack # ""
               THEN /\ traceback' = unpack
                    /\ exit_status' = Some(1)
                    /\ pc' = "done"
                    /\ UNCHANGED <<ngrok_host, ngrok_port>>
               ELSE /\ ngrok_host' = r.ret.items[1]
                    /\ ngrok_port' = r.ret.items[2]
                    /\ pc' = "branch"
                    /\ UNCHANGED <<traceback, exit_status>>
    /\ UNCHANGED <<env, cfg, put_response, update_response>>

\* lines 111-122 looping back to try again when the update returned None
PublishRetry ==
    /\ pc = "branch"
    /\ Truthy(ngrok_host) /\ Truthy(ngrok_port)
    /\ \E resp \in PutResponses, version \in RequestsVersions :
         LET u == update_cloudflare_dns(
                      cfg.cf_api_token[1], cfg.cf_zone_id[1], cfg.cf_record_id[1],
                      cfg.cf_record_name[1],
                      Format(ngrok_host) \o <<":">> \o Format(ngrok_port),
                      cfg.cloudflare_service_name[1], "_tcp", DefaultTtl,
                      resp, version)
             shown == <<Line("Ngrok Host, Port", <<ngrok_host, ngrok_port>>)>>
         IN /\ requests' = requests \o u.request
            /\ IF u.raised # ""
               THEN /\ stdout' = stdout \o shown
                    /\ traceback' = u.raised
                    /\ exit_status' = Some(1)
                    /\ pc' = "done"
                    /\ UNCHANGED <<put_response, update_response>>
               ELSE /\ stdout' = stdout \o shown \o u.out
                                 \o <<Line("json.dumps(update_response)", u.ret)>>
                    /\ put_response' = Some(resp)
                    /\ update_response' = u.ret
                    /\ IF u.ret = PyNone
                       THEN pc' = "branch" /\ UNCHANGED exit_status
                       ELSE pc' = "done" /\ exit_status' = Some(0)
                    /\ UNCHANGED traceback
    /\ UNCHANGED <<env, cfg, get_response, lookup, ngrok_host, ngrok_port>>

\* lines 111-122
Publish ==
    /\ pc = "branch"
    /\ Truthy(ngrok_host) /\ Truthy(ngrok_port)
    /\ \E resp \in PutResponses, version \in RequestsVersions :
         LET u == update_cloudflare_dns(
                      cfg.cf_api_token[1], cfg.cf_zone_id[1], cfg.cf_record_id[1],
                      cfg.cf_record_name[1],
                      Format(ngrok_host) \o <<":">> \o Format(ngrok_port),
                      cfg.cloudflare_service_name[1], "_tcp", DefaultTtl,
                      resp, version)
             shown == <<Line("Ngrok Host, Port", <<ngrok_host, ngrok_port>>)>>
         IN /\ requests' = requests \o u.request
            /\ IF u.raised # ""
               THEN /\ stdout' = stdout \o shown
                    /\ traceback' = u.raised
                    /\ exit_status' = Some(1)
                    /\ UNCHANGED <<put_response, update_response>>
               ELSE /\ stdout' = stdout \o shown \o u.out
                                 \o <<Line("json.dumps(update_response)", u.ret)>>
                    /\ put_response' = Some(resp)
                    /\ update_response' = u.ret
                    /\ exit_status' = Some(0)
                    /\ UNCHANGED traceback
    /\ pc' = "done"
    /\ UNCHANGED <<env, cfg, get_response, lookup, ngrok_host, ngrok_port>>

\* lines 123-124
ReportFailure ==
    /\ pc = "branch"
    /\ ~(Truthy(ngrok_host) /\ Truthy(ngrok_port))
    /\ stdout' = Append(stdout, Line("Failed to retrieve ngrok URL and port.", ""))
    /\ exit_status' = Some(0)
    /\ pc' = "done"
    /\ UNCHANGED <<env, cfg, get_response, lookup, ngrok_host, ngrok_port, requests,
                   put_response, update_response, traceback>>

Next == Configure \/ Resolve \/ Publish \/ ReportFailure

Spec == Init /\ [][Next]_vars

---------------------------------------------------------------------------
(* Vocabulary of the properties *)

RequiredNames == {"CLOUDFLARE_API_TOKEN", "CLOUDFLARE_ZONE_ID",
                  "CLOUDFLARE_RECORD_ID", "NGROK_API_ENDPOINT"}

ConfigMissing == \E n \in RequiredNames : env[n] = PyNone \/ env[n] = Some("")

Issued(m) == SelectSeq(requests, LAMBDA q : q.method = m)

Printed(m) == \E i \in 1..Len(stdout) : stdout[i].msg = m

PrintedWith(m, a) == \E i \in 1..Len(stdout) : stdout[i].msg = m /\ stdout[i].arg = a

LookupMessages == {"Error fetching ngrok URL: HTTP", "Network error occurred", "Error"}

Answered == get_response # PyNone

\* the GET was answered 200 with a JSON body holding a tunnels list
ListAnswer ==
    /\ Answered
    /\ ~get_response[1].neterr
    /\ get_response[1].status = 200
    /\ get_response[1].valid_json
    /\ get_response[1].has_tunnels

TcpPositions(ts) == {i \in 1..Len(ts) : ts[i].proto = Some("tcp")}

FirstTcp(ts) == CHOOSE i \in TcpPositions(ts) : \A j \in TcpPositions(ts) : i <= j

\* the scan meets an entry without the key it reads there
MissingKey(ts) ==
    \E i \in 1..Len(ts) :
        /\ \A j \in 1..(i - 1) : ts[j].proto # PyNone /\ ts[j].proto # Some("tcp")
        /\ \/ ts[i].proto = PyNone
           \/ ts[i].proto = Some("tcp") /\ ts[i].public_url = PyNone

---------------------------------------------------------------------------
(* C1 *)

\* C1: when one of the four required values is missing or empty, the run issues
\* no GET and no PUT, and once past the configuration step it has printed the
\* diagnostic and ended with exit status 1.
C1_MissingConfigExits ==
    ConfigMissing =>
        /\ requests = <<>>
        /\ pc \in {"configure", "done"}
        /\ pc = "done" =>
              /\ exit_status = Some(1)
              /\ Printed("Missing one or more required environment variables.")
              /\ Len(stdout) = 1

C1_Witness ==
    /\ pc = "done"
    /\ env.CLOUDFLARE_ZONE_ID = Some("")
    /\ env.CLOUDFLARE_API_TOKEN = Some("token")
    /\ env.CLOUDFLARE_RECORD_ID = Some("record")
    /\ env.NGROK_API_ENDPOINT # PyNone /\ env.NGROK_API_ENDPOINT # Some("")

---------------------------------------------------------------------------
(* C2 *)

\* C2: a run issues at most one GET and at most one PUT, a PUT only as the
\* second request after the GET, and only when the lookup returned a pair whose
\* host and port are both present; an absent lookup result is followed by no PUT.
C2_GetThenAtMostOnePut ==
    /\ Len(Issued("GET")) <= 1
    /\ Len(Issued("PUT")) <= 1
    /\ \A i \in 1..Len(requests) :
          requests[i].method = "PUT" => i = 2 /\ requests[1].method = "GET"
    /\ Issued("PUT") # <<>> =>
          /\ Answered
          /\ lookup # PyNone
          /\ ~lookup[1].none
          /\ Len(lookup[1].items) = 2
          /\ Truthy(lookup[1].items[1])
          /\ Truthy(lookup[1].items[2])
    /\ (lookup # PyNone /\ (lookup[1].none \/ lookup[1] = NonePair)) =>
          Issued("PUT") = <<>>

C2_Witness ==
    /\ pc = "done"
    /\ Len(Issued("PUT")) = 1
    /\ Len(Issued("GET")) = 1

---------------------------------------------------------------------------
(* C3 *)

NoTcpAnswer ==
    /\ ListAnswer
    /\ TcpPositions(get_response[1].tunnels) = {}

\* C3: when the tunnel API answers 200 with a tunnels list that has no tcp entry,
\* the lookup returns (None, None), no exception ends the run, and the run ends
\* having printed the failure diagnostic and issued no PUT.
C3_NoTcpIsAbsentPair ==
    NoTcpAnswer =>
        /\ lookup = Some(NonePair)
        /\ traceback = ""
        /\ Issued("PUT") = <<>>
        /\ pc = "done" => Printed("Failed to retrieve ngrok URL and port.")

---------------------------------------------------------------------------
(* C4 *)

\* the GET failed: transport error, non-200 status, a body that is not JSON, or
\* a body without a key the lookup reads
FailedGet ==
    /\ Answered
    /\ \/ get_response[1].neterr
       \/ get_response[1].status # 200
       \/ ~get_response[1].valid_json
       \/ ~get_response[1].has_tunnels
       \/ MissingKey(get_response[1].tunnels)

\* C4: after a failed GET the lookup has printed one of its messages (the status
\* line carrying the status when the status is not 200) and has returned
\* (None, None), and no exception has left it.
C4_FailedGetIsAbsentPair ==
    FailedGet =>
        /\ lookup = Some(NonePair)
        /\ traceback = ""
        /\ \E m \in LookupMessages : Printed(m)
        /\ (~get_response[1].neterr /\ get_response[1].status # 200) =>
              PrintedWith("Error fetching ngrok URL: HTTP", get_response[1].status)

C4_Witness ==
    /\ Answered
    /\ ~get_response[1].neterr
    /\ get_response[1].status = 502
    /\ pc = "branch"

---------------------------------------------------------------------------
(* C5 *)

\* C5: every finished run has exit status 1 when required configuration is
\* missing and exit status 0 otherwise, and none ends in an uncaught exception.
C5_ExitStatus ==
    pc = "done" =>
        /\ exit_status = Some(IF ConfigMissing THEN 1 ELSE 0)
        /\ traceback = ""

---------------------------------------------------------------------------
(* C6 *)

\* the PUT was issued, so the content passed in was host:port with a numeric port
PutAnswered == put_response # PyNone

PutJson == ResponseJson(put_response[1].text)

UpdateMessages == {"Network error occurred", "Unexpected error"}

\* what C6 says of every status: the parsed body exactly on 200 with a JSON
\* body, None otherwise, a message on a transport fault, no exception
C6_Returns ==
    /\ traceback = ""
    /\ update_response # PyNone <=>
          (~put_response[1].neterr /\ put_response[1].status = 200 /\ PutJson # PyNone)
    /\ update_response # PyNone => update_response = PutJson
    /\ put_response[1].neterr => \E m \in UpdateMessages : Printed(m)

\* C6 as stated: the updater returns the parsed body exactly on 200 with a JSON
\* body; on every other status it prints the status and the provider's body and
\* returns None; on a transport fault it prints a message and returns None.
C6_AsStated ==
    PutAnswered =>
        /\ C6_Returns
        /\ (~put_response[1].neterr /\ put_response[1].status # 200) =>
              /\ PrintedWith("Error updating Cloudflare DNS: HTTP", put_response[1].status)
              /\ Printed("response.json()")

\* C6 amended: as stated, except that on a status other than 200 the provider's
\* body is printed only when it is JSON; when it is not, one of the updater's
\* error messages is printed in its place.
C6_UpdaterResult ==
    PutAnswered =>
        /\ C6_Returns
        /\ (~put_response[1].neterr /\ put_response[1].status # 200) =>
              /\ PrintedWith("Error updating Cloudflare DNS: HTTP", put_response[1].status)
              /\ IF PutJson # PyNone
                 THEN PrintedWith("response.json()", PutJson)
                 ELSE /\ ~Printed("response.json()")
                      /\ \E m \in UpdateMessages : Printed(m)

C6_Witness ==
    /\ PutAnswered
    /\ put_response[1].status = 403
    /\ put_response[1].text = ErrBody
    /\ update_response = PyNone
    /\ pc = "done"

---------------------------------------------------------------------------
(* C7 *)

\* a leading "tcp://" taken off, nothing else changed
StripLeadingScheme(u) ==
    IF Len(u) >= Len(TcpScheme) /\ SubSeq(u, 1, Len(TcpScheme)) = TcpScheme
    THEN SubSeq(u, Len(TcpScheme) + 1, Len(u))
    ELSE u

\* the GET was answered with a list whose scan reaches a tcp entry with a url
TcpAnswer ==
    /\ ListAnswer
    /\ TcpPositions(get_response[1].tunnels) # {}
    /\ ~MissingKey(get_response[1].tunnels)

\* C7: when the answer holds a tcp entry, the lookup returns the first tcp
\* entry's public_url without its leading "tcp://", split on ":" into exactly
\* two components, host and port.
C7_FirstTcpHostPort ==
    TcpAnswer =>
        LET ts == get_response[1].tunnels
            parts == Split(StripLeadingScheme(ts[FirstTcp(ts)].public_url[1]), ":")
        IN /\ Len(parts) = 2
           /\ lookup # PyNone
           /\ ~lookup[1].none
           /\ lookup[1].items = <<Some(parts[1]), Some(parts[2])>>

---------------------------------------------------------------------------
(* C8 *)

\* C8: what the lookup returns is either a pair of a non-empty host and a
\* non-empty port, or the pair (None, None).
C8_NeverPartial ==
    Answered =>
        /\ lookup # PyNone
        /\ ~lookup[1].none
        /\ Len(lookup[1].items) = 2
        /\ \/ lookup[1] = NonePair
           \/ Truthy(lookup[1].items[1]) /\ Truthy(lookup[1].items[2])

---------------------------------------------------------------------------
(* C9 *)

ConfiguredName ==
    IF env.CLOUDFLARE_RECORD_NAME = PyNone THEN "default_record_name"
    ELSE env.CLOUDFLARE_RECORD_NAME[1]

ConfiguredService ==
    IF env.CLOUDFLARE_SERVICE_NAME = PyNone THEN "_minecraft"
    ELSE env.CLOUDFLARE_SERVICE_NAME[1]

\* C9: the body of every PUT is the SRV update of the pair the lookup returned:
\* content host:port, target the host, port the port as an integer, proto "_tcp",
\* priority and weight 0, both names the configured record name, the configured
\* service, ttl 60.
C9_PutBody ==
    \A i \in 1..Len(requests) :
        requests[i].method = "PUT" =>
            LET host == lookup[1].items[1][1]
                port == lookup[1].items[2][1]
                body == requests[i].json
            IN /\ body.type = "SRV"
               /\ body.name = ConfiguredName
               /\ body.content = host \o <<":">> \o port
               /\ body.ttl = 60
               /\ body.data.service = ConfiguredService
               /\ body.data.proto = "_tcp"
               /\ body.data.name = ConfiguredName
               /\ body.data.priority = 0
               /\ body.data.weight = 0
               /\ body.data.target = host
               /\ IntParses(port)
               /\ body.data.port = IntValue(port)
               /\ DOMAIN body = {"type", "name", "content", "data", "ttl"}
               /\ DOMAIN body.data = {"service", "proto", "name", "priority",
                                      "weight", "port", "target"}

C9_Witness ==
    /\ Len(requests) = 2
    /\ requests[2].method = "PUT"
    /\ requests[2].json.data.port = 5555
    /\ requests[2].json.data.target = <<"1", ".", "2", ".", "3", ".", "4">>
    /\ requests[2].json.name = "default_record_name"
    /\ requests[2].json.data.service = "custom"

---------------------------------------------------------------------------
(* C10 *)

Diagnostics ==
    LookupMessages \cup UpdateMessages
    \cup {"Missing one or more required environment variables.",
          "Failed to retrieve ngrok URL and port.",
          "Error updating Cloudflare DNS: HTTP"}

\* C10: every finished run whose DNS update did not succeed has printed at
\* least one diagnostic line and has not ended in an uncaught exception.
C10_FailureIsReported ==
    (pc = "done" /\ update_response = PyNone) =>
        /\ \E m \in Diagnostics : Printed(m)
        /\ traceback = ""

====
